---- MODULE Spec2Model ----
(***************************************************************************)
(* Model of the QSPI NOR flash driver of src/src/main.rs (FlashMemory) and *)
(* of the sequence main() runs on it.                                      *)
(*                                                                         *)
(* One step of the model is one bus transaction of the driver (or one      *)
(* piece of driver-local computation between two transactions); pc is the  *)
(* driver's position and stack the return positions of the calls in        *)
(* progress.  trace holds the bus transactions of the public operation in  *)
(* progress (or of the last one completed).                                *)
(*                                                                         *)
(* The flash device is the driver's environment.  It is modelled as the    *)
(* command table of the specification describes it: it executes a command  *)
(* when the command's instruction phase has the width of the device's      *)
(* current interface mode, and otherwise ignores it (a read then returns   *)
(* an arbitrary byte).  Write-In-Progress is set by erase, program and     *)
(* reset for a nondeterministic number of status polls.                    *)
(***************************************************************************)
EXTENDS Integers, Sequences, FiniteSets, TLC

VARIABLES
    pc,              \* driver position (a label), "idle" between operations
    stack,           \* return labels of the calls in progress
    cur_op,          \* public operation in progress / last completed
    trace,           \* bus transactions of cur_op, in order
    qpi_mode,        \* FlashMemory::qpi_mode
    mm,              \* transport's memory-mapped template, or NoMM
    overflow_checks, \* build profile: TRUE = arithmetic overflow panics
    panic_kind,      \* "none", or which panic halted the program
    regv,            \* local: value returned by the last register read
    erase_instr,     \* local: perform_erase's instruction
    arg_addr,        \* local: address argument of the operation
    buffer,          \* write_memory's buffer argument
    left,            \* write_memory local
    place,           \* write_memory local
    chunk_start,     \* write_memory local
    wp_addr,         \* write_page argument addr
    wp_buf,          \* write_page argument buffer
    wp_len,          \* write_page argument len
    calls,           \* history: the calls write_memory made to write_page
    rd_buf,          \* main's rd_buf / last read_memory buffer
    main_pc,         \* position of main(), "env" when the caller is arbitrary
    first_u32,       \* main local
    second_u32,      \* main local
    cr_at_call,      \* history: device Configuration Register when cur_op began
    dev_qpi,         \* device: TRUE when the device decodes quad instructions
    dev_cr,          \* device: Status Register 2 / Configuration Register
    dev_sr,          \* device: Status Register 1 without the WIP bit
    dev_busy,        \* device: number of status polls that still read WIP = 1
    dev_rst,         \* device: an enable-reset (0x66) was the last command
    mem              \* device: flash array, addresses 0 .. MemSize-1

vars == <<pc, stack, cur_op, trace, qpi_mode, mm, overflow_checks, panic_kind,
          regv, erase_instr, arg_addr, buffer, left, place, chunk_start,
          wp_addr, wp_buf, wp_len, calls, rd_buf, main_pc, first_u32,
          second_u32, cr_at_call, dev_qpi, dev_cr, dev_sr, dev_busy, dev_rst,
          mem>>

drv_vars == <<qpi_mode, mm>>
wm_vars == <<buffer, left, place, chunk_start, calls>>
wp_vars == <<wp_addr, wp_buf, wp_len>>
main_vars == <<main_pc, first_u32, second_u32>>
dev_vars == <<dev_qpi, dev_cr, dev_sr, dev_busy, dev_rst, mem>>
loc_vars == <<regv, erase_instr, arg_addr>>

---------------------------------------------------------------------------
\* Bounds of the model.

\* Largest start address of the low address range write_memory is tried on.
MaxAddr == 17
\* write_memory is also tried on the addresses within Near of 256.
Near == 2
\* Largest buffer length write_memory is tried on.
MaxLen == 9
\* The device reads Write-In-Progress set for at most MaxBusy polls.
MaxBusy == 1
\* write_memory's loop is followed for at most MaxIter iterations.
MaxIter == 3

---------------------------------------------------------------------------
\* Program constants.

MEMORY_PAGE_SIZE == 8
CMD_QUAD_READ == 107
CMD_QUAD_WRITE_PG == 50
CMD_READ_ID == 159
CMD_ENABLE_RESET == 102
CMD_RESET == 153
CMD_WRITE_ENABLE == 6
CMD_CHIP_ERASE == 199
CMD_SECTOR_ERASE == 32
CMD_BLOCK_ERASE_32K == 82
CMD_BLOCK_ERASE_64K == 216
CMD_ENTER_QSPI_MODE == 56
CMD_SET_READ_PARAMETERS == 192
CMD_READ_STATUS_REG1 == 5
CMD_READ_STATUS_REG2 == 53
CMD_WRITE_STATUS_REG1 == 1
CMD_WRITE_STATUS_REG2 == 49
CMD_FAST_READ_QUAD_IO == 235
QE_MASK == 2
\* The mask 0x000000ff of write_page's assertion and write_memory's chunking.
OffsetMask == 255
\* The mask 0x01 of wait_write_finish (Write-In-Progress).
WipMask == 1
\* usize and u32 have 32 bits on the target: a value is kept as two 16-bit
\* halves [hi, lo] where its wrap-around matters; HalfModulus is 2^16.
HalfModulus == 65536
\* The data byte 0x03 << 4 of set-read-parameters.
ReadParams == 48
\* main's expected words.
ExpectFirst == 50462976
ExpectSecond == 117835012
\* main's rd_buf length and wr_buf length.
RdBufLen == 16
WrBufLen == 8

---------------------------------------------------------------------------
\* Bytes and bit operations (masks are single bits or 0xff).

\* v & m != 0, for a single-bit mask m
HasBit(v, m) == (v \div m) % 2 = 1

\* v | m, for a single-bit mask m
BitOr(v, m) == IF HasBit(v, m) THEN v ELSE v + m

\* v & !m, for a single-bit mask m
BitClear(v, m) == IF HasBit(v, m) THEN v - m ELSE v

\* addr & 0x000000ff
LowByte(addr) == addr % (OffsetMask + 1)

RECURSIVE ByteAnd(_, _)
\* bitwise and of two bytes
ByteAnd(a, b) ==
    IF a = 0 \/ b = 0 THEN 0
    ELSE 2 * ByteAnd(a \div 2, b \div 2) + (IF a % 2 = 1 /\ b % 2 = 1 THEN 1 ELSE 0)

\* little-endian u32 of four bytes
LE32(s) == s[1] + 256 * s[2] + 65536 * s[3] + 16777216 * s[4]

NoAddr == -1
NoMM == [armed |-> FALSE]

\* A TransferConfig together with the transport primitive it is given to.
Tx(kind, op, iw, aw, dw, addr, dummy, data) ==
    [kind |-> kind, op |-> op, iw |-> iw, aw |-> aw, dw |-> dw,
     addr |-> addr, dummy |-> dummy, data |-> data]

---------------------------------------------------------------------------
\* The flash device (environment of the driver).

\* Number of flash cells the model keeps, addresses 0 .. MemSize-1.
MemSize == 16
\* Erased value of a flash cell.
ErasedByte == 255
\* Erase granularities of sector erase, 32K block erase and 64K block erase.
SectorSize == 4096
Block32Size == 32768
Block64Size == 65536

MemAddrs == 0 .. (MemSize - 1)

\* The identification bytes the device returns (non-zero vendor/device ID).
DeviceId == <<239, 64, 23>>

\* What a read returns when the device did not decode the command.
Garbage == {0, 255}

\* The device decodes a transaction when its instruction phase has the width
\* of the device's interface mode.
Accepts(tx) == (tx.iw = "QUAD") = dev_qpi

EraseOps == {CMD_SECTOR_ERASE, CMD_BLOCK_ERASE_32K, CMD_BLOCK_ERASE_64K, CMD_CHIP_ERASE}

\* The cells an erase command erases.
EraseRegion(tx) ==
    LET size == IF tx.op = CMD_SECTOR_ERASE THEN SectorSize
                ELSE IF tx.op = CMD_BLOCK_ERASE_32K THEN Block32Size
                ELSE Block64Size
    IN  IF tx.op = CMD_CHIP_ERASE THEN MemAddrs
        ELSE {a \in MemAddrs : a \div size = tx.addr \div size}

\* The flash array after a page program: a NOR cell only clears bits.
Programmed(tx) ==
    [a \in MemAddrs |->
        IF a >= tx.addr /\ a < tx.addr + Len(tx.data)
        THEN ByteAnd(mem[a], tx.data[a - tx.addr + 1])
        ELSE mem[a]]

\* Flash cell at address a (cells the model does not keep read erased).
MemAt(a) == IF a \in MemAddrs THEN mem[a] ELSE ErasedByte

\* Status Register 1 as the device reports it.
StatusNow == dev_sr + (IF dev_busy > 0 THEN WipMask ELSE 0)

\* The possible results of a read transaction of n bytes.
DevReadResults(tx, n) ==
    IF ~Accepts(tx) THEN {[i \in 1..n |-> g] : g \in Garbage}
    ELSE IF tx.op = CMD_READ_STATUS_REG1 THEN {<<StatusNow>>}
    ELSE IF tx.op = CMD_READ_STATUS_REG2 THEN {<<dev_cr>>}
    ELSE IF tx.op = CMD_READ_ID THEN {DeviceId}
    ELSE IF tx.op = CMD_QUAD_READ THEN {[i \in 1..n |-> MemAt(tx.addr + i - 1)]}
    ELSE {[i \in 1..n |-> g] : g \in Garbage}

\* The device's reaction to a transaction.
DevNext(tx) ==
    IF ~Accepts(tx) THEN UNCHANGED dev_vars
    ELSE
      /\ dev_rst' = (tx.op = CMD_ENABLE_RESET)
      /\ dev_qpi' = IF tx.op = CMD_RESET /\ dev_rst THEN FALSE
                    ELSE IF tx.op = CMD_ENTER_QSPI_MODE THEN TRUE
                    ELSE dev_qpi
      /\ dev_cr' = IF tx.op = CMD_WRITE_STATUS_REG2 THEN tx.data[1] ELSE dev_cr
      /\ dev_sr' = IF tx.op = CMD_WRITE_STATUS_REG1
                   THEN BitClear(tx.data[1], WipMask) ELSE dev_sr
      /\ mem' = IF tx.op \in EraseOps
                THEN [a \in MemAddrs |-> IF a \in EraseRegion(tx) THEN ErasedByte ELSE mem[a]]
                ELSE IF tx.op = CMD_QUAD_WRITE_PG THEN Programmed(tx)
                ELSE mem
      /\ IF tx.op \in EraseOps \/ tx.op = CMD_QUAD_WRITE_PG
            \/ (tx.op = CMD_RESET /\ dev_rst)
         THEN dev_busy' \in 0..MaxBusy
         ELSE IF tx.op = CMD_READ_STATUS_REG1 /\ dev_busy > 0
         THEN dev_busy' = dev_busy - 1
         ELSE dev_busy' = dev_busy

\* The word a 4-byte load at offset a of the memory-mapped window returns.
Load32(a) ==
    IF mm.armed /\ dev_qpi /\ mm.iw = "QUAD" /\ mm.op = CMD_FAST_READ_QUAD_IO
    THEN {LE32([i \in 1..4 |-> MemAt(a + i - 1)])}
    ELSE {LE32([i \in 1..4 |-> g]) : g \in Garbage}

---------------------------------------------------------------------------
\* Transport primitives: each appends the transaction to the trace and lets
\* the device react.

\* Qspi::blocking_command
BlockingCommand(tx) ==
    /\ trace' = Append(trace, tx)
    /\ DevNext(tx)

\* Qspi::blocking_write
BlockingWrite(tx) ==
    /\ trace' = Append(trace, tx)
    /\ DevNext(tx)

\* Qspi::blocking_read of n bytes, result res (recorded in the trace)
BlockingRead(tx, n, res) ==
    /\ res \in DevReadResults(tx, n)
    /\ trace' = Append(trace, [tx EXCEPT !.data = res])
    /\ DevNext(tx)

\* Return from the function in progress.
Return ==
    IF stack = <<>> THEN pc' = "idle" /\ stack' = stack
    ELSE pc' = Head(stack) /\ stack' = Tail(stack)

---------------------------------------------------------------------------
\* Command descriptors of the driver.

\* exec_command / write_enable / enter-QPI: single-wire instruction only
SingleCmd(cmd) == Tx("cmd", cmd, "SING", "NONE", "NONE", NoAddr, 0, <<>>)

\* Mutant of QuadCmd: exec_command_4 builds its command single-wire.
QuadCmdSingleWire(cmd) == Tx("cmd", cmd, "SING", "NONE", "NONE", NoAddr, 0, <<>>)

\* exec_command_4: quad instruction only
QuadCmd(cmd) == Tx("cmd", cmd, "QUAD", "NONE", "NONE", NoAddr, 0, <<>>)

\* write_enable's transaction
WriteEnableTx == SingleCmd(CMD_WRITE_ENABLE)

\* Mutant of RegWidth: the register accesses are always single-wire.
RegWidthSingleWire == "SING"

\* read_register / write_register: both widths follow qpi_mode
RegWidth == IF qpi_mode THEN "QUAD" ELSE "SING"

RegTx(kind, instruction, data) ==
    Tx(kind, instruction, RegWidth, "NONE", RegWidth, NoAddr, 0, data)

\* Mutant of EraseTx: perform_erase builds its command with a quad instruction
\* phase.
EraseTxQuadWidth(addr, instruction) ==
    Tx("cmd", instruction, "QUAD", "SING", "NONE", addr, 0, <<>>)

\* perform_erase's transaction
EraseTx(addr, instruction) ==
    Tx("cmd", instruction, "SING", "SING", "NONE", addr, 0, <<>>)

\* write_page's transaction
PageProgramTx(addr, data) ==
    Tx("write", CMD_QUAD_WRITE_PG, "SING", "SING", "QUAD", addr, 0, data)

\* read_memory's transaction
ReadMemoryTx(addr) ==
    Tx("read", CMD_QUAD_READ, "SING", "SING", "QUAD", addr, 8, <<>>)

\* read_id's transaction (awidth NONE, the rest of TransferConfig default)
ReadIdTx == Tx("read", CMD_READ_ID, "SING", "NONE", "SING", NoAddr, 0, <<>>)

\* Mutant of SetReadParamsTx: the parameter write is built single-wire.
SetReadParamsSingleWire ==
    Tx("write", CMD_SET_READ_PARAMETERS, "SING", "NONE", "SING", NoAddr, 0, <<ReadParams>>)

\* enter_qpi_mode's set-read-parameters transaction
SetReadParamsTx ==
    Tx("write", CMD_SET_READ_PARAMETERS, "QUAD", "NONE", "QUAD", NoAddr, 0, <<ReadParams>>)

\* Mutant of MemoryMapConfig: the template has no dummy cycles.
MemoryMapNoDummy ==
    [armed |-> TRUE, op |-> CMD_FAST_READ_QUAD_IO, iw |-> "QUAD", aw |-> "QUAD",
     dw |-> "QUAD", addr |-> 24, dummy |-> 0]

\* enable_mm's template (address: Some(24), dummy _8)
MemoryMapConfig ==
    [armed |-> TRUE, op |-> CMD_FAST_READ_QUAD_IO, iw |-> "QUAD", aw |-> "QUAD",
     dw |-> "QUAD", addr |-> 24, dummy |-> 8]

---------------------------------------------------------------------------
\* write_memory's arithmetic.

\* MEMORY_PAGE_SIZE - (place & 0xff) as usize overflows (usize is unsigned)
SubOverflows(p) == LowByte(p) > MEMORY_PAGE_SIZE

\* max_chunk_size as a 32-bit usize [hi, lo]: the difference, wrapped modulo
\* 2^32 when the subtraction overflows unchecked
MaxChunkSize(p) ==
    IF LowByte(p) <= MEMORY_PAGE_SIZE
    THEN [hi |-> 0, lo |-> MEMORY_PAGE_SIZE - LowByte(p)]
    ELSE [hi |-> HalfModulus - 1, lo |-> HalfModulus - (LowByte(p) - MEMORY_PAGE_SIZE)]

\* chunk_size = if left >= max_chunk_size { max_chunk_size } else { left },
\* for left below 2^16 and max_chunk_size a usize [hi, lo]
ChunkSize(l, m) == IF m.hi = 0 /\ l >= m.lo THEN m.lo ELSE l

\* write_page's assertion: (len as u32 + (addr & 0xff)) <= MEMORY_PAGE_SIZE
\* (the sum stays far below 2^32 for the lengths of the model)
WritePageFits(addr, len) == (len + LowByte(addr)) <= MEMORY_PAGE_SIZE

\* wr_buf as main fills it: wr_buf[i] = i as u8 (n bytes)
WrBuf(n) == [i \in 1..n |-> (i - 1) % 256]

---------------------------------------------------------------------------
\* Steps of the driver.

Halt(kind) ==
    /\ pc' = "panic"
    /\ panic_kind' = kind
    /\ stack' = stack

\* Mutant of ResetMemory: the last reset command also sets qpi_mode to false.
ResetMemoryClearsFlag ==
    /\ pc \in {"rst1", "rst2", "rst3", "rst4"}
    /\ BlockingCommand(
         IF pc = "rst1" THEN QuadCmd(CMD_ENABLE_RESET)
         ELSE IF pc = "rst2" THEN QuadCmd(CMD_RESET)
         ELSE IF pc = "rst3" THEN SingleCmd(CMD_ENABLE_RESET)
         ELSE SingleCmd(CMD_RESET))
    /\ pc' = (IF pc = "rst1" THEN "rst2" ELSE IF pc = "rst2" THEN "rst3"
              ELSE IF pc = "rst3" THEN "rst4" ELSE "wait")
    /\ qpi_mode' = (IF pc = "rst4" THEN FALSE ELSE qpi_mode)
    /\ UNCHANGED <<stack, cur_op, mm, overflow_checks, panic_kind, loc_vars,
                   wm_vars, wp_vars, rd_buf, main_vars, cr_at_call>>

\* reset_memory: the four reset commands, then wait_write_finish
ResetMemory ==
    /\ pc \in {"rst1", "rst2", "rst3", "rst4"}
    /\ BlockingCommand(
         IF pc = "rst1" THEN QuadCmd(CMD_ENABLE_RESET)
         ELSE IF pc = "rst2" THEN QuadCmd(CMD_RESET)
         ELSE IF pc = "rst3" THEN SingleCmd(CMD_ENABLE_RESET)
         ELSE SingleCmd(CMD_RESET))
    /\ pc' = (IF pc = "rst1" THEN "rst2" ELSE IF pc = "rst2" THEN "rst3"
              ELSE IF pc = "rst3" THEN "rst4" ELSE "wait")
    /\ UNCHANGED <<stack, cur_op, drv_vars, overflow_checks, panic_kind, loc_vars,
                   wm_vars, wp_vars, rd_buf, main_vars, cr_at_call>>

RECURSIVE TrailingPolls(_)
\* Number of Status Register 1 reads that end the trace t.
TrailingPolls(t) ==
    IF t = <<>> \/ t[Len(t)].op # CMD_READ_STATUS_REG1 THEN 0
    ELSE 1 + TrailingPolls(SubSeq(t, 1, Len(t) - 1))

\* Mutant of WaitWriteFinish: an `if` in place of the `while`, one poll and
\* return whatever it shows.
WaitWriteFinishOnce ==
    /\ pc = "wait"
    /\ \E res \in DevReadResults(RegTx("read", CMD_READ_STATUS_REG1, <<>>), 1) :
         /\ BlockingRead(RegTx("read", CMD_READ_STATUS_REG1, <<>>), 1, res)
         /\ regv' = res[1]
         /\ Return
    /\ UNCHANGED <<cur_op, drv_vars, overflow_checks, panic_kind, erase_instr, arg_addr,
                   wm_vars, wp_vars, rd_buf, main_vars, cr_at_call>>

\* Mutant of WaitWriteFinish: the loop runs while Write-In-Progress is clear.
WaitWriteFinishWhileClear ==
    /\ pc = "wait"
    /\ TrailingPolls(trace) <= MaxBusy
    /\ \E res \in DevReadResults(RegTx("read", CMD_READ_STATUS_REG1, <<>>), 1) :
         /\ BlockingRead(RegTx("read", CMD_READ_STATUS_REG1, <<>>), 1, res)
         /\ regv' = res[1]
         /\ IF ~HasBit(res[1], WipMask) THEN pc' = "wait" /\ stack' = stack
            ELSE Return
    /\ UNCHANGED <<cur_op, drv_vars, overflow_checks, panic_kind, erase_instr, arg_addr,
                   wm_vars, wp_vars, rd_buf, main_vars, cr_at_call>>

\* wait_write_finish: one poll of Status Register 1 (a wait is followed for
\* at most MaxBusy + 1 polls)
WaitWriteFinish ==
    /\ pc = "wait"
    /\ TrailingPolls(trace) <= MaxBusy
    /\ \E res \in DevReadResults(RegTx("read", CMD_READ_STATUS_REG1, <<>>), 1) :
         /\ BlockingRead(RegTx("read", CMD_READ_STATUS_REG1, <<>>), 1, res)
         /\ regv' = res[1]
         /\ IF HasBit(res[1], WipMask) THEN pc' = "wait" /\ stack' = stack
            ELSE Return
    /\ UNCHANGED <<cur_op, drv_vars, overflow_checks, panic_kind, erase_instr, arg_addr,
                   wm_vars, wp_vars, rd_buf, main_vars, cr_at_call>>

\* enable_quad: read_cr; write_cr(cr | 0x02); read_sr; write_sr(sr | 0x02)
EnableQuadRead ==
    /\ pc \in {"eq_rcr", "eq_rsr"}
    /\ LET instr == IF pc = "eq_rcr" THEN CMD_READ_STATUS_REG2 ELSE CMD_READ_STATUS_REG1
       IN \E res \in DevReadResults(RegTx("read", instr, <<>>), 1) :
            /\ BlockingRead(RegTx("read", instr, <<>>), 1, res)
            /\ regv' = res[1]
    /\ pc' = (IF pc = "eq_rcr" THEN "eq_wcr" ELSE "eq_wsr")
    /\ UNCHANGED <<stack, cur_op, drv_vars, overflow_checks, panic_kind, erase_instr,
                   arg_addr, wm_vars, wp_vars, rd_buf, main_vars, cr_at_call>>

\* Mutant of EnableQuadValue: enable_quad masks the bit out instead of in.
EnableQuadValueCleared(v) == BitClear(v, QE_MASK)

\* the value enable_quad writes back: the value read with bit 0x02 set
EnableQuadValue(v) == BitOr(v, QE_MASK)

EnableQuadWrite ==
    /\ pc \in {"eq_wcr", "eq_wsr"}
    /\ BlockingWrite(RegTx("write",
          IF pc = "eq_wcr" THEN CMD_WRITE_STATUS_REG2 ELSE CMD_WRITE_STATUS_REG1,
          <<EnableQuadValue(regv)>>))
    /\ IF pc = "eq_wcr" THEN pc' = "eq_rsr" /\ stack' = stack ELSE Return
    /\ UNCHANGED <<cur_op, drv_vars, overflow_checks, panic_kind, loc_vars,
                   wm_vars, wp_vars, rd_buf, main_vars, cr_at_call>>

\* disable_quad: read_cr; write_cr(cr & !0x02)
DisableQuadRead ==
    /\ pc = "dq_rcr"
    /\ \E res \in DevReadResults(RegTx("read", CMD_READ_STATUS_REG2, <<>>), 1) :
         /\ BlockingRead(RegTx("read", CMD_READ_STATUS_REG2, <<>>), 1, res)
         /\ regv' = res[1]
    /\ pc' = "dq_wcr"
    /\ UNCHANGED <<stack, cur_op, drv_vars, overflow_checks, panic_kind, erase_instr,
                   arg_addr, wm_vars, wp_vars, rd_buf, main_vars, cr_at_call>>

\* the value disable_quad writes back
DisableQuadValue(v) == BitClear(v, QE_MASK)

DisableQuadWrite ==
    /\ pc = "dq_wcr"
    /\ BlockingWrite(RegTx("write", CMD_WRITE_STATUS_REG2, <<DisableQuadValue(regv)>>))
    /\ Return
    /\ UNCHANGED <<cur_op, drv_vars, overflow_checks, panic_kind, loc_vars,
                   wm_vars, wp_vars, rd_buf, main_vars, cr_at_call>>

\* enter_qpi_mode: let status = self.read_cr()
EnterQpiReadCr ==
    /\ pc = "qpi_rcr"
    /\ \E res \in DevReadResults(RegTx("read", CMD_READ_STATUS_REG2, <<>>), 1) :
         /\ BlockingRead(RegTx("read", CMD_READ_STATUS_REG2, <<>>), 1, res)
         /\ regv' = res[1]
         /\ pc' = (IF ~HasBit(res[1], QE_MASK) THEN "qpi_wcr" ELSE "qpi_enter")
    /\ UNCHANGED <<stack, cur_op, drv_vars, overflow_checks, panic_kind, erase_instr,
                   arg_addr, wm_vars, wp_vars, rd_buf, main_vars, cr_at_call>>

\* enter_qpi_mode: self.write_cr(status | QE_MASK), when the bit read clear
EnterQpiWriteCr ==
    /\ pc = "qpi_wcr"
    /\ BlockingWrite(RegTx("write", CMD_WRITE_STATUS_REG2, <<BitOr(regv, QE_MASK)>>))
    /\ pc' = "qpi_enter"
    /\ UNCHANGED <<stack, cur_op, drv_vars, overflow_checks, panic_kind, loc_vars,
                   wm_vars, wp_vars, rd_buf, main_vars, cr_at_call>>

\* enter_qpi_mode: the single-wire enter-QPI command
EnterQpiCommand ==
    /\ pc = "qpi_enter"
    /\ BlockingCommand(SingleCmd(CMD_ENTER_QSPI_MODE))
    /\ pc' = "qpi_flag"
    /\ UNCHANGED <<stack, cur_op, drv_vars, overflow_checks, panic_kind, loc_vars,
                   wm_vars, wp_vars, rd_buf, main_vars, cr_at_call>>

\* enter_qpi_mode: self.qpi_mode = true
EnterQpiSetFlag ==
    /\ pc = "qpi_flag"
    /\ qpi_mode' = TRUE
    /\ pc' = "qpi_we"
    /\ UNCHANGED <<stack, cur_op, trace, mm, overflow_checks, panic_kind, loc_vars,
                   wm_vars, wp_vars, rd_buf, main_vars, cr_at_call, dev_vars>>

\* enter_qpi_mode: self.write_enable()
EnterQpiWriteEnable ==
    /\ pc = "qpi_we"
    /\ BlockingCommand(WriteEnableTx)
    /\ pc' = "qpi_params"
    /\ UNCHANGED <<stack, cur_op, drv_vars, overflow_checks, panic_kind, loc_vars,
                   wm_vars, wp_vars, rd_buf, main_vars, cr_at_call>>

\* enter_qpi_mode: the set-read-parameters write
EnterQpiSetParams ==
    /\ pc = "qpi_params"
    /\ BlockingWrite(SetReadParamsTx)
    /\ Return
    /\ UNCHANGED <<cur_op, drv_vars, overflow_checks, panic_kind, loc_vars,
                   wm_vars, wp_vars, rd_buf, main_vars, cr_at_call>>

\* enable_mm: self.qspi.enable_memory_map(&config), after enter_qpi_mode
EnableMmArm ==
    /\ pc = "mm_arm"
    /\ mm' = MemoryMapConfig
    /\ Return
    /\ UNCHANGED <<cur_op, trace, qpi_mode, overflow_checks, panic_kind, loc_vars,
                   wm_vars, wp_vars, rd_buf, main_vars, cr_at_call, dev_vars>>

\* write_enable (public)
WriteEnable ==
    /\ pc = "we"
    /\ BlockingCommand(WriteEnableTx)
    /\ Return
    /\ UNCHANGED <<cur_op, drv_vars, overflow_checks, panic_kind, loc_vars,
                   wm_vars, wp_vars, rd_buf, main_vars, cr_at_call>>

\* read_id
ReadId ==
    /\ pc = "rid"
    /\ \E res \in DevReadResults(ReadIdTx, 3) : BlockingRead(ReadIdTx, 3, res)
    /\ Return
    /\ UNCHANGED <<cur_op, drv_vars, overflow_checks, panic_kind, loc_vars,
                   wm_vars, wp_vars, rd_buf, main_vars, cr_at_call>>

\* read_memory into a buffer of RdBufLen bytes
ReadMemory ==
    /\ pc = "rmem"
    /\ \E res \in DevReadResults(ReadMemoryTx(arg_addr), RdBufLen) :
         /\ BlockingRead(ReadMemoryTx(arg_addr), RdBufLen, res)
         /\ rd_buf' = res
    /\ Return
    /\ UNCHANGED <<cur_op, drv_vars, overflow_checks, panic_kind, loc_vars,
                   wm_vars, wp_vars, main_vars, cr_at_call>>

\* read_cr / read_sr (public): one register read
ReadRegister ==
    /\ pc \in {"rcr", "rsr"}
    /\ LET instr == IF pc = "rcr" THEN CMD_READ_STATUS_REG2 ELSE CMD_READ_STATUS_REG1
       IN \E res \in DevReadResults(RegTx("read", instr, <<>>), 1) :
            /\ BlockingRead(RegTx("read", instr, <<>>), 1, res)
            /\ regv' = res[1]
    /\ Return
    /\ UNCHANGED <<cur_op, drv_vars, overflow_checks, panic_kind, erase_instr,
                   arg_addr, wm_vars, wp_vars, rd_buf, main_vars, cr_at_call>>

\* write_cr / write_sr (public): one register write of the value in regv
WriteRegister ==
    /\ pc \in {"wcr", "wsr"}
    /\ BlockingWrite(RegTx("write",
          IF pc = "wcr" THEN CMD_WRITE_STATUS_REG2 ELSE CMD_WRITE_STATUS_REG1,
          <<regv>>))
    /\ Return
    /\ UNCHANGED <<cur_op, drv_vars, overflow_checks, panic_kind, loc_vars,
                   wm_vars, wp_vars, rd_buf, main_vars, cr_at_call>>

\* perform_erase: write_enable, then the erase command, then wait_write_finish
PerformEraseEnable ==
    /\ pc = "er_we"
    /\ BlockingCommand(WriteEnableTx)
    /\ pc' = "er_cmd"
    /\ UNCHANGED <<stack, cur_op, drv_vars, overflow_checks, panic_kind, loc_vars,
                   wm_vars, wp_vars, rd_buf, main_vars, cr_at_call>>

PerformEraseCommand ==
    /\ pc = "er_cmd"
    /\ BlockingCommand(EraseTx(arg_addr, erase_instr))
    /\ pc' = "wait"
    /\ UNCHANGED <<stack, cur_op, drv_vars, overflow_checks, panic_kind, loc_vars,
                   wm_vars, wp_vars, rd_buf, main_vars, cr_at_call>>

\* erase_chip: write_enable, exec_command(CMD_CHIP_ERASE), wait_write_finish
EraseChipEnable ==
    /\ pc = "ec_we"
    /\ BlockingCommand(WriteEnableTx)
    /\ pc' = "ec_cmd"
    /\ UNCHANGED <<stack, cur_op, drv_vars, overflow_checks, panic_kind, loc_vars,
                   wm_vars, wp_vars, rd_buf, main_vars, cr_at_call>>

EraseChipCommand ==
    /\ pc = "ec_cmd"
    /\ BlockingCommand(SingleCmd(CMD_CHIP_ERASE))
    /\ pc' = "wait"
    /\ UNCHANGED <<stack, cur_op, drv_vars, overflow_checks, panic_kind, loc_vars,
                   wm_vars, wp_vars, rd_buf, main_vars, cr_at_call>>

\* write_memory: the loop test, the chunk computation and the call of write_page
WriteMemoryLoop ==
    /\ pc = "wm_loop"
    /\ IF left = 0
       THEN /\ Return
            /\ UNCHANGED <<panic_kind, wm_vars, wp_vars>>
       ELSE /\ Len(calls) < MaxIter
            /\ IF SubOverflows(place) /\ overflow_checks
               THEN /\ Halt("overflow")
                    /\ UNCHANGED <<wm_vars, wp_vars>>
               ELSE LET max_chunk_size == MaxChunkSize(place)
                        chunk_size == ChunkSize(left, max_chunk_size)
                        chunk == SubSeq(buffer, chunk_start + 1, chunk_start + chunk_size)
                    IN  /\ wp_addr' = place
                        /\ wp_buf' = chunk
                        /\ wp_len' = chunk_size
                        /\ calls' = Append(calls, [addr |-> place, data |-> chunk,
                                                   len |-> chunk_size])
                        /\ pc' = "wp_assert"
                        /\ stack' = <<"wm_adv">> \o stack
                        /\ UNCHANGED <<panic_kind, buffer, left, place, chunk_start>>
    /\ UNCHANGED <<cur_op, trace, drv_vars, overflow_checks, loc_vars, rd_buf,
                   main_vars, cr_at_call, dev_vars>>

\* write_memory: place += chunk_size; left -= chunk_size; chunk_start += chunk_size
\* (chunk_size is the len write_page was given; the sums stay far below 2^32)
WriteMemoryAdvance ==
    /\ pc = "wm_adv"
    /\ place' = place + wp_len
    /\ left' = left - wp_len
    /\ chunk_start' = chunk_start + wp_len
    /\ pc' = "wm_loop"
    /\ UNCHANGED <<stack, cur_op, trace, drv_vars, overflow_checks, panic_kind, loc_vars,
                   buffer, calls, wp_vars, rd_buf, main_vars, cr_at_call, dev_vars>>

\* write_page: the assertion
WritePageAssert ==
    /\ pc = "wp_assert"
    /\ IF WritePageFits(wp_addr, wp_len)
       THEN pc' = "wp_we" /\ UNCHANGED <<stack, panic_kind>>
       ELSE Halt("write_page")
    /\ UNCHANGED <<cur_op, trace, drv_vars, overflow_checks, loc_vars, wm_vars, wp_vars,
                   rd_buf, main_vars, cr_at_call, dev_vars>>

\* write_page: write_enable
WritePageEnable ==
    /\ pc = "wp_we"
    /\ BlockingCommand(WriteEnableTx)
    /\ pc' = "wp_prog"
    /\ UNCHANGED <<stack, cur_op, drv_vars, overflow_checks, panic_kind, loc_vars,
                   wm_vars, wp_vars, rd_buf, main_vars, cr_at_call>>

\* write_page: the page program, then wait_write_finish
WritePageProgram ==
    /\ pc = "wp_prog"
    /\ BlockingWrite(PageProgramTx(wp_addr, wp_buf))
    /\ pc' = "wait"
    /\ UNCHANGED <<stack, cur_op, drv_vars, overflow_checks, panic_kind, loc_vars,
                   wm_vars, wp_vars, rd_buf, main_vars, cr_at_call>>

---------------------------------------------------------------------------
\* Calls of the public operations.

\* Entry of a public operation: a fresh trace, the position and return stack.
\* The locals of the operation that returned are gone.
Begin(op, label, stk) ==
    /\ pc = "idle"
    /\ cur_op' = op
    /\ trace' = <<>>
    /\ pc' = label
    /\ stack' = stk
    /\ cr_at_call' = dev_cr
    /\ wp_addr' = 0
    /\ wp_buf' = <<>>
    /\ wp_len' = 0
    /\ UNCHANGED <<drv_vars, overflow_checks, panic_kind, first_u32, second_u32, dev_vars>>

\* Locals an operation does not have.
NoRegv == regv' = 0
NoErase == erase_instr' = 0
NoAddrArg == arg_addr' = 0
NoLocals == NoRegv /\ NoErase /\ NoAddrArg
NoWrite ==
    /\ buffer' = <<>>
    /\ left' = 0
    /\ place' = 0
    /\ chunk_start' = 0
    /\ calls' = <<>>

\* A caller's fresh read buffer: [0u8; 16]
FreshRdBuf == [i \in 1..RdBufLen |-> 0]

\* write_memory's entry: left = buffer.len(); place = addr; chunk_start = 0
WriteMemoryEntry(addr, buf) ==
    /\ arg_addr' = addr
    /\ buffer' = buf
    /\ left' = Len(buf)
    /\ place' = addr
    /\ chunk_start' = 0
    /\ calls' = <<>>

\* The write_memory calls an arbitrary caller is given: main's, and one that
\* starts on the last byte of a page.
EnvWrites == {<<0, WrBufLen>>, <<MEMORY_PAGE_SIZE - 1, 2>>}

\* The register values an arbitrary caller writes with write_cr / write_sr.
EnvRegValues == {0, QE_MASK}

CallResetMemory ==
    /\ main_pc = "env"
    /\ Begin("reset_memory", "rst1", <<>>)
    /\ NoLocals /\ NoWrite
    /\ rd_buf' = FreshRdBuf
    /\ UNCHANGED main_pc

CallEnterQpiMode ==
    /\ main_pc = "env"
    /\ Begin("enter_qpi_mode", "qpi_rcr", <<>>)
    /\ NoLocals /\ NoWrite
    /\ rd_buf' = FreshRdBuf
    /\ UNCHANGED main_pc

CallEnableMm ==
    /\ main_pc = "env"
    /\ Begin("enable_mm", "qpi_rcr", <<"mm_arm">>)
    /\ NoLocals /\ NoWrite
    /\ rd_buf' = FreshRdBuf
    /\ UNCHANGED main_pc

CallEnableQuad ==
    /\ main_pc = "env"
    /\ Begin("enable_quad", "eq_rcr", <<>>)
    /\ NoLocals /\ NoWrite
    /\ rd_buf' = FreshRdBuf
    /\ UNCHANGED main_pc

CallDisableQuad ==
    /\ main_pc = "env"
    /\ Begin("disable_quad", "dq_rcr", <<>>)
    /\ NoLocals /\ NoWrite
    /\ rd_buf' = FreshRdBuf
    /\ UNCHANGED main_pc

CallWriteEnable ==
    /\ main_pc = "env"
    /\ Begin("write_enable", "we", <<>>)
    /\ NoLocals /\ NoWrite
    /\ rd_buf' = FreshRdBuf
    /\ UNCHANGED main_pc

CallReadId ==
    /\ main_pc = "env"
    /\ Begin("read_id", "rid", <<>>)
    /\ NoLocals /\ NoWrite
    /\ rd_buf' = FreshRdBuf
    /\ UNCHANGED main_pc

CallReadMemory ==
    /\ main_pc = "env"
    /\ Begin("read_memory", "rmem", <<>>)
    /\ arg_addr' = 0
    /\ NoRegv /\ NoErase /\ NoWrite
    /\ rd_buf' = FreshRdBuf
    /\ UNCHANGED main_pc

CallReadRegister ==
    /\ main_pc = "env"
    /\ \/ Begin("read_cr", "rcr", <<>>)
       \/ Begin("read_sr", "rsr", <<>>)
    /\ NoLocals /\ NoWrite
    /\ rd_buf' = FreshRdBuf
    /\ UNCHANGED main_pc

CallWriteRegister ==
    /\ main_pc = "env"
    /\ \/ Begin("write_cr", "wcr", <<>>)
       \/ Begin("write_sr", "wsr", <<>>)
    /\ regv' \in EnvRegValues
    /\ NoErase /\ NoAddrArg /\ NoWrite
    /\ rd_buf' = FreshRdBuf
    /\ UNCHANGED main_pc

\* erase_sector / erase_block_32k / erase_block_64k at address 0
CallErase ==
    /\ main_pc = "env"
    /\ \/ Begin("erase_sector", "er_we", <<>>) /\ erase_instr' = CMD_SECTOR_ERASE
       \/ Begin("erase_block_32k", "er_we", <<>>) /\ erase_instr' = CMD_BLOCK_ERASE_32K
       \/ Begin("erase_block_64k", "er_we", <<>>) /\ erase_instr' = CMD_BLOCK_ERASE_64K
    /\ arg_addr' = 0
    /\ NoRegv /\ NoWrite
    /\ rd_buf' = FreshRdBuf
    /\ UNCHANGED main_pc

CallEraseChip ==
    /\ main_pc = "env"
    /\ Begin("erase_chip", "ec_we", <<>>)
    /\ NoLocals /\ NoWrite
    /\ rd_buf' = FreshRdBuf
    /\ UNCHANGED main_pc

CallWriteMemory ==
    /\ main_pc = "env"
    /\ Begin("write_memory", "wm_loop", <<>>)
    /\ \E w \in EnvWrites : WriteMemoryEntry(w[1], WrBuf(w[2]))
    /\ NoRegv /\ NoErase
    /\ rd_buf' = FreshRdBuf
    /\ UNCHANGED main_pc

---------------------------------------------------------------------------
\* main(), from FlashMemory::new on.

MainReadId ==
    /\ main_pc = "new"
    /\ Begin("read_id", "rid", <<>>)
    /\ main_pc' = "read_id"
    /\ NoLocals /\ NoWrite
    /\ UNCHANGED rd_buf

MainEraseSector ==
    /\ main_pc = "read_id"
    /\ Begin("erase_sector", "er_we", <<>>)
    /\ erase_instr' = CMD_SECTOR_ERASE
    /\ arg_addr' = 0
    /\ main_pc' = "erase_sector"
    /\ NoRegv /\ NoWrite
    /\ UNCHANGED rd_buf

MainWriteMemory ==
    /\ main_pc = "erase_sector"
    /\ Begin("write_memory", "wm_loop", <<>>)
    /\ WriteMemoryEntry(0, WrBuf(WrBufLen))
    /\ main_pc' = "write_memory"
    /\ NoRegv /\ NoErase
    /\ UNCHANGED rd_buf

MainReadMemory ==
    /\ main_pc = "write_memory"
    /\ Begin("read_memory", "rmem", <<>>)
    /\ arg_addr' = 0
    /\ main_pc' = "read_memory"
    /\ NoRegv /\ NoErase /\ NoWrite
    /\ UNCHANGED rd_buf

MainEnableMm ==
    /\ main_pc = "read_memory"
    /\ Begin("enable_mm", "qpi_rcr", <<"mm_arm">>)
    /\ main_pc' = "enable_mm"
    /\ NoLocals /\ NoWrite
    /\ UNCHANGED rd_buf

\* let first_u32 = *(0x90000000 as *const u32); assert_eq!(first_u32, 0x03020100)
MainFirstWord ==
    /\ main_pc = "enable_mm"
    /\ pc = "idle"
    /\ \E w \in Load32(0) :
         /\ first_u32' = w
         /\ IF w = ExpectFirst
            THEN main_pc' = "first_ok" /\ UNCHANGED <<pc, stack, panic_kind>>
            ELSE Halt("assert_eq") /\ main_pc' = main_pc
    /\ UNCHANGED <<cur_op, trace, drv_vars, overflow_checks, loc_vars, wm_vars, wp_vars,
                   rd_buf, second_u32, cr_at_call, dev_vars>>

\* let second_u32 = *(0x90000004 as *const u32); assert_eq!(second_u32, 0x07060504)
MainSecondWord ==
    /\ main_pc = "first_ok"
    /\ pc = "idle"
    /\ \E w \in Load32(4) :
         /\ second_u32' = w
         /\ IF w = ExpectSecond
            THEN main_pc' = "loop" /\ UNCHANGED <<pc, stack, panic_kind>>
            ELSE Halt("assert_eq") /\ main_pc' = main_pc
    /\ UNCHANGED <<cur_op, trace, drv_vars, overflow_checks, loc_vars, wm_vars, wp_vars,
                   rd_buf, first_u32, cr_at_call, dev_vars>>

---------------------------------------------------------------------------
\* Initial states and specifications.

\* The flash array before the program runs: erased, or all bits programmed.
InitMems == {[a \in MemAddrs |-> v] : v \in {0, ErasedByte}}

\* The Configuration Register before the program runs.
InitCrs == {0, QE_MASK, 64, 64 + QE_MASK}

\* The device before the program runs: in either interface mode, idle or busy.
InitDevice ==
    /\ dev_qpi \in BOOLEAN
    /\ dev_cr \in InitCrs
    /\ dev_sr = 0
    /\ dev_busy \in 0..MaxBusy
    /\ dev_rst = FALSE
    /\ mem \in InitMems

\* Locals before their first assignment.
InitLocals ==
    /\ regv = 0
    /\ erase_instr = 0
    /\ arg_addr = 0
    /\ buffer = <<>>
    /\ left = 0
    /\ place = 0
    /\ chunk_start = 0
    /\ wp_addr = 0
    /\ wp_buf = <<>>
    /\ wp_len = 0
    /\ calls = <<>>
    /\ rd_buf = FreshRdBuf
    /\ first_u32 = 0
    /\ second_u32 = 0
    /\ panic_kind = "none"

\* FlashMemory::new: Self { qspi, qpi_mode: false }, about to call reset_memory
\* and then enable_quad.
InitNew ==
    /\ pc = "rst1"
    /\ stack = <<"eq_rcr">>
    /\ cur_op = "new"
    /\ trace = <<>>
    /\ qpi_mode = FALSE
    /\ mm = NoMM
    /\ overflow_checks \in BOOLEAN
    /\ InitDevice
    /\ cr_at_call = dev_cr
    /\ InitLocals

\* The driver under an arbitrary caller.
Init == InitNew /\ main_pc = "env"

Next ==
    \/ ResetMemory \/ WaitWriteFinish
    \/ EnableQuadRead \/ EnableQuadWrite
    \/ DisableQuadRead \/ DisableQuadWrite
    \/ EnterQpiReadCr \/ EnterQpiWriteCr \/ EnterQpiCommand \/ EnterQpiSetFlag
    \/ EnterQpiWriteEnable \/ EnterQpiSetParams \/ EnableMmArm
    \/ WriteEnable \/ ReadId \/ ReadMemory \/ ReadRegister \/ WriteRegister
    \/ PerformEraseEnable \/ PerformEraseCommand
    \/ EraseChipEnable \/ EraseChipCommand
    \/ WriteMemoryLoop \/ WriteMemoryAdvance
    \/ WritePageAssert \/ WritePageEnable \/ WritePageProgram
    \/ CallResetMemory \/ CallEnterQpiMode \/ CallEnableMm \/ CallEnableQuad
    \/ CallDisableQuad \/ CallWriteEnable \/ CallReadId \/ CallReadMemory
    \/ CallReadRegister \/ CallWriteRegister \/ CallErase \/ CallEraseChip
    \/ CallWriteMemory

Spec == Init /\ [][Next]_vars

\* The driver under an arbitrary caller, its busy-wait running on: the loop of
\* wait_write_finish has no suspension point, each poll is followed by the
\* next.
SpecFair == Init /\ [][Next]_vars /\ WF_vars(WaitWriteFinish)

\* main() on the driver.
InitMain == InitNew /\ main_pc = "new"

NextMain ==
    \/ ResetMemory \/ WaitWriteFinish
    \/ EnableQuadRead \/ EnableQuadWrite
    \/ EnterQpiReadCr \/ EnterQpiCommand \/ EnterQpiSetFlag
    \/ EnterQpiWriteEnable \/ EnterQpiSetParams \/ EnableMmArm
    \/ ReadId \/ ReadMemory
    \/ PerformEraseEnable \/ PerformEraseCommand
    \/ WriteMemoryLoop \/ WriteMemoryAdvance
    \/ WritePageAssert \/ WritePageEnable \/ WritePageProgram
    \/ MainReadId \/ MainEraseSector \/ MainWriteMemory \/ MainReadMemory
    \/ MainEnableMm \/ MainFirstWord \/ MainSecondWord

SpecMain == InitMain /\ [][NextMain]_vars

\* The start addresses write_memory is checked on: the low range, and the
\* addresses around the first multiple of 256.
WmAddrs ==
    (0 .. MaxAddr) \cup {OffsetMask + 1 - k : k \in 1..Near}
                   \cup {OffsetMask + 1 + k : k \in 0..Near}

\* write_memory(a, b) called on a constructed driver: the device is idle in
\* single-wire mode with Quad-Enable set, the flash array erased.
InitChunk ==
    /\ pc = "wm_loop"
    /\ stack = <<>>
    /\ cur_op = "write_memory"
    /\ trace = <<>>
    /\ qpi_mode = FALSE
    /\ mm = NoMM
    /\ overflow_checks \in BOOLEAN
    /\ main_pc = "env"
    /\ dev_qpi = FALSE
    /\ dev_cr = QE_MASK
    /\ dev_sr = QE_MASK
    /\ dev_busy = 0
    /\ dev_rst = FALSE
    /\ mem = [a \in MemAddrs |-> ErasedByte]
    /\ cr_at_call = dev_cr
    /\ regv = 0
    /\ erase_instr = 0
    /\ wp_addr = 0
    /\ wp_buf = <<>>
    /\ wp_len = 0
    /\ rd_buf = FreshRdBuf
    /\ first_u32 = 0
    /\ second_u32 = 0
    /\ panic_kind = "none"
    /\ \E a \in WmAddrs, n \in 1..MaxLen :
         /\ arg_addr = a
         /\ buffer = WrBuf(n)
         /\ left = n
         /\ place = a
         /\ chunk_start = 0
         /\ calls = <<>>

NextChunk ==
    \/ WriteMemoryLoop \/ WriteMemoryAdvance
    \/ WritePageAssert \/ WritePageEnable \/ WritePageProgram
    \/ WaitWriteFinish

SpecChunk == InitChunk /\ [][NextChunk]_vars

---------------------------------------------------------------------------
\* Properties of write_memory's page-program calls (checked under SpecChunk,
\* which draws the start address and the buffer length).

RECURSIVE ConcatData(_)
\* The payloads of a sequence of write_page calls, concatenated.
ConcatData(cs) ==
    IF cs = <<>> THEN <<>> ELSE cs[1].data \o ConcatData(Tail(cs))

\* write_memory has stopped: it returned, or a panic halted it.
WriteMemoryStopped == cur_op = "write_memory" /\ pc \in {"idle", "panic"}

\* C1: every call write_memory makes to write_page stays within one page of
\* MEMORY_PAGE_SIZE bytes: (address mod MEMORY_PAGE_SIZE) + length is at most
\* MEMORY_PAGE_SIZE.
C1_NoCallCrossesPage ==
    \A i \in 1..Len(calls) :
        (calls[i].addr % MEMORY_PAGE_SIZE) + calls[i].len <= MEMORY_PAGE_SIZE

\* C2: the calls write_memory(a, b) makes to write_page are contiguous from a,
\* in order, and when write_memory has stopped their payloads concatenate to b.
C2_CallsReconstructBuffer ==
    /\ \A i \in 1..Len(calls) :
          /\ calls[i].len = Len(calls[i].data)
          /\ calls[i].addr = IF i = 1 THEN arg_addr
                             ELSE calls[i - 1].addr + calls[i - 1].len
    /\ WriteMemoryStopped => ConcatData(calls) = buffer

\* C7: write_memory at address MEMORY_PAGE_SIZE - 1 with a 2-byte buffer makes
\* exactly two calls, (7, 1 byte) then (8, 1 byte): never a third call, and
\* call i is at address 6 + i with length 1.
C7_TwoCallsAtPageEnd ==
    (cur_op = "write_memory" /\ arg_addr = MEMORY_PAGE_SIZE - 1 /\ Len(buffer) = 2)
    => /\ Len(calls) <= 2
       /\ \A i \in 1..Len(calls) :
             calls[i].addr = MEMORY_PAGE_SIZE - 2 + i /\ calls[i].len = 1
       /\ pc = "idle" => Len(calls) = 2

\* C9: every iteration of write_memory's loop programs at least one byte, so
\* the number of bytes left strictly decreases each time the cursor advances.
C9_LeftDecreases == [][pc = "wm_adv" => left' < left]_vars

\* C10: write_page's assertion never fires on a call write_memory makes.
C10_AssertNeverFires == panic_kind # "write_page"

\* C11: write_page halts on its assertion exactly when the chunk does not fit
\* in what is left of its page of MEMORY_PAGE_SIZE bytes: it has halted only
\* if (addr mod MEMORY_PAGE_SIZE) + len > MEMORY_PAGE_SIZE, and it has gone on
\* to program only if the chunk fits.
C11_AssertIffCrossesPage ==
    /\ panic_kind = "write_page"
          => (wp_addr % MEMORY_PAGE_SIZE) + wp_len > MEMORY_PAGE_SIZE
    /\ pc \in {"wp_we", "wp_prog"}
          => (wp_addr % MEMORY_PAGE_SIZE) + wp_len <= MEMORY_PAGE_SIZE

---------------------------------------------------------------------------
\* Properties of the driver's bus transactions (checked under Spec, the
\* driver under an arbitrary caller).

\* An erase or page-program command.
IsEraseOrProgram(tx) == tx.op \in EraseOps \/ tx.op = CMD_QUAD_WRITE_PG

\* A read of Status Register 1.
IsPoll(tx) == tx.kind = "read" /\ tx.op = CMD_READ_STATUS_REG1

\* A read of Status Register 1 that shows Write-In-Progress set.
IsBusyPoll(tx) == IsPoll(tx) /\ HasBit(tx.data[1], WipMask)

\* A write of Status Register 1 or of the Configuration Register.
IsRegisterWrite(tx) ==
    tx.kind = "write" /\ tx.op \in {CMD_WRITE_STATUS_REG1, CMD_WRITE_STATUS_REG2}

\* C3: every erase or page-program command in the trace comes right after a
\* write-enable, is followed by Status Register 1 reads only for as long as
\* they show Write-In-Progress set, and the driver stays in wait_write_finish
\* until one of them shows it clear.
C3_WriteEnableThenWait ==
    \A i \in 1..Len(trace) :
        IsEraseOrProgram(trace[i]) =>
            /\ i > 1
            /\ trace[i - 1].kind = "cmd" /\ trace[i - 1].op = CMD_WRITE_ENABLE
            /\ i < Len(trace) => IsPoll(trace[i + 1])
            /\ \A j \in (i + 1)..Len(trace) :
                  (\A k \in (i + 1)..j : IsBusyPoll(trace[k]))
                  => (j < Len(trace) => IsPoll(trace[j + 1]))
            /\ (\A k \in (i + 1)..Len(trace) : IsBusyPoll(trace[k])) => pc = "wait"

\* C3 witness: an erase or program was followed by a busy poll and then by an
\* idle poll, and the operation returned.
C3_Witness ==
    /\ pc = "idle"
    /\ \E i \in 1..Len(trace) :
          /\ IsEraseOrProgram(trace[i])
          /\ i + 2 <= Len(trace)
          /\ IsBusyPoll(trace[i + 1])
          /\ IsPoll(trace[i + 2]) /\ ~IsBusyPoll(trace[i + 2])

QuadEnabled == HasBit(dev_cr, QE_MASK)

\* C4 as stated: no step clears the Quad-Enable bit once set, clears
\* qpi_mode once true, or disarms the memory-mapped window once armed.
C4_ModeNeverMovesBack ==
    [][/\ QuadEnabled => QuadEnabled'
       /\ qpi_mode => qpi_mode'
       /\ mm.armed => mm'.armed]_vars

\* C4 amended: no step clears qpi_mode once true or disarms the memory-mapped
\* window once armed, and the Quad-Enable bit, once set, is cleared only by
\* disable_quad or by a write_cr of a value with the bit clear.
C4_ModeMovesBackOnlyByDisable ==
    [][/\ (QuadEnabled /\ ~QuadEnabled') => cur_op \in {"disable_quad", "write_cr"}
       /\ qpi_mode => qpi_mode'
       /\ mm.armed => mm'.armed]_vars

\* C4 witness: with Quad-Enable set, qpi_mode true and the window armed, a
\* later operation (an erase, a write, a reset or enable_quad) has completed.
C4_Witness ==
    /\ QuadEnabled /\ qpi_mode /\ mm.armed
    /\ pc = "idle"
    /\ cur_op \in {"erase_sector", "write_memory", "reset_memory", "enable_quad"}

\* C5: when the Configuration Register has Quad-Enable set as enable_quad or
\* enter_qpi_mode (also through enable_mm) begins, the operation issues no
\* write of Status Register 1 or of the Configuration Register.
C5_NoWriteWhenQuadEnabled ==
    (cur_op \in {"enable_quad", "enter_qpi_mode", "enable_mm"}
        /\ HasBit(cr_at_call, QE_MASK))
    => \A i \in 1..Len(trace) : ~IsRegisterWrite(trace[i])

\* The reset sequence: enable-reset and reset encoded quad, then single-wire.
ResetOpcodes == <<CMD_ENABLE_RESET, CMD_RESET, CMD_ENABLE_RESET, CMD_RESET>>
ResetWidths == <<"QUAD", "QUAD", "SING", "SING">>

\* C8: during FlashMemory::new the trace starts with the reset sequence, then
\* holds only Status Register 1 polls, then (when new has returned) ends with
\* the quad-enable step: read CR, write CR with 0x02 set, read SR1, write SR1
\* with 0x02 set; qpi_mode is false throughout.
C8_NewResetsThenEnablesQuad ==
    cur_op = "new" =>
        /\ qpi_mode = FALSE
        /\ \A i \in 1..Len(trace) :
              i <= 4 => /\ trace[i].kind = "cmd"
                        /\ trace[i].op = ResetOpcodes[i]
                        /\ trace[i].iw = ResetWidths[i]
        /\ pc = "idle" =>
              LET n == Len(trace) IN
              /\ n >= 9
              /\ \A i \in 5..(n - 4) : IsPoll(trace[i])
              /\ trace[n - 3].kind = "read" /\ trace[n - 3].op = CMD_READ_STATUS_REG2
              /\ trace[n - 2].kind = "write" /\ trace[n - 2].op = CMD_WRITE_STATUS_REG2
              /\ HasBit(trace[n - 2].data[1], QE_MASK)
              /\ trace[n - 1].kind = "read" /\ trace[n - 1].op = CMD_READ_STATUS_REG1
              /\ trace[n].kind = "write" /\ trace[n].op = CMD_WRITE_STATUS_REG1
              /\ HasBit(trace[n].data[1], QE_MASK)

\* C8 witness: new has returned, after a reset the device stayed busy for.
C8_Witness ==
    /\ cur_op = "new" /\ pc = "idle"
    /\ Len(trace) >= 10
    /\ IsBusyPoll(trace[5])

\* A step that issues a bus transaction (the trace grows by it).
Issues == Len(trace') = Len(trace) + 1

\* The transaction a step issues.
Issued == trace'[Len(trace')]

\* C12: once qpi_mode is true, every bus transaction the driver issues has a
\* quad instruction phase.
C12_QuadAfterFlag == [][(qpi_mode /\ Issues) => Issued.iw = "QUAD"]_vars

\* The operation in progress runs enter_qpi_mode (directly or from enable_mm).
EntersQpi == cur_op \in {"enter_qpi_mode", "enable_mm"}

\* Position in enter_qpi_mode's trace of the enter-QPI command: second when the
\* Configuration Register read showed Quad-Enable set, third (after the
\* register write) when it showed it clear.
QpiCmdAt == IF HasBit(trace[1].data[1], QE_MASK) THEN 2 ELSE 3

\* C13: enter_qpi_mode's transactions are, in order: the Configuration Register
\* read; a write of it with Quad-Enable set, only if the read showed the bit
\* clear; the single-wire enter-QPI command; write-enable; one set-read-
\* parameters write, quad, of exactly one byte.  qpi_mode is true from the
\* enter-QPI command on (before the parameter write), and a step sets it only
\* right after that command.
C13_EnterQpiOrder ==
    /\ [](EntersQpi /\ Len(trace) >= 1 =>
            LET k == QpiCmdAt IN
            /\ trace[1].kind = "read" /\ trace[1].op = CMD_READ_STATUS_REG2
            /\ (k = 3 /\ Len(trace) >= 2) =>
                  /\ trace[2].kind = "write" /\ trace[2].op = CMD_WRITE_STATUS_REG2
                  /\ trace[2].data = <<BitOr(trace[1].data[1], QE_MASK)>>
            /\ Len(trace) >= k =>
                  /\ trace[k].kind = "cmd" /\ trace[k].op = CMD_ENTER_QSPI_MODE
                  /\ trace[k].iw = "SING"
            /\ Len(trace) >= k + 1 =>
                  /\ trace[k + 1].kind = "cmd" /\ trace[k + 1].op = CMD_WRITE_ENABLE
                  /\ qpi_mode
            /\ Len(trace) >= k + 2 =>
                  /\ trace[k + 2].kind = "write"
                  /\ trace[k + 2].op = CMD_SET_READ_PARAMETERS
                  /\ trace[k + 2].iw = "QUAD" /\ trace[k + 2].dw = "QUAD"
                  /\ Len(trace[k + 2].data) = 1
                  /\ qpi_mode
            /\ Len(trace) <= k + 2
            /\ pc \in {"idle", "mm_arm"} => Len(trace) = k + 2)
    /\ [][(~qpi_mode /\ qpi_mode') =>
            /\ EntersQpi /\ Len(trace) >= 1 /\ Len(trace) = QpiCmdAt
            /\ trace' = trace]_vars

\* C13 witness: enter_qpi_mode has returned after all five transactions (the
\* Configuration Register read showed Quad-Enable clear), the device in QPI.
C13_Witness ==
    /\ cur_op = "enter_qpi_mode" /\ pc = "idle"
    /\ Len(trace) = 5
    /\ qpi_mode /\ dev_qpi

\* A set-read-parameters write, the last transaction of enter_qpi_mode.
IsSetReadParams(tx) == tx.kind = "write" /\ tx.op = CMD_SET_READ_PARAMETERS

\* C14: whenever the memory-mapped window is armed, qpi_mode is true and the
\* template is opcode 0xEB with quad instruction, address and data phases and
\* 8 dummy cycles; and the window is armed (or its template changed) only by
\* enable_mm, as its last step, after the QPI-entry sequence of the same call
\* has ended with its set-read-parameters write.
C14_WindowAfterQpi ==
    /\ [](mm.armed =>
            /\ qpi_mode
            /\ mm.op = CMD_FAST_READ_QUAD_IO
            /\ mm.iw = "QUAD" /\ mm.aw = "QUAD" /\ mm.dw = "QUAD"
            /\ mm.dummy = 8)
    /\ [][(mm' # mm \/ (pc = "mm_arm" /\ pc' # pc)) =>
            /\ cur_op = "enable_mm" /\ pc = "mm_arm" /\ pc' = "idle"
            /\ qpi_mode
            /\ Len(trace) >= 4
            /\ IsSetReadParams(trace[Len(trace)])
            /\ trace[Len(trace) - 2].op = CMD_ENTER_QSPI_MODE
            /\ trace' = trace
            /\ mm'.armed]_vars

\* C14 witness: enable_mm has returned with the window armed and the device
\* in QPI.
C14_Witness ==
    /\ cur_op = "enable_mm" /\ pc = "idle"
    /\ mm.armed /\ qpi_mode /\ dev_qpi

\* reset_memory has returned: called on its own, or from FlashMemory::new.
ResetReturned ==
    \/ cur_op = "reset_memory" /\ pc = "idle"
    \/ cur_op = "new" /\ pc \notin {"rst1", "rst2", "rst3", "rst4", "wait"}

\* C15: when reset_memory has returned, whichever interface mode the device
\* was in when it started, the device is in single-wire mode and idle.
C15_ResetEndsSingleWireIdle == ResetReturned => (~dev_qpi /\ dev_busy = 0)

\* C16: qpi_mode is false while FlashMemory::new runs, and a step changes it
\* only inside enter_qpi_mode (called directly or from enable_mm), and only
\* to true; every other operation leaves it as it is.
C16_FlagSetOnlyByEnterQpi ==
    /\ [](cur_op = "new" => ~qpi_mode)
    /\ [][qpi_mode' # qpi_mode => (EntersQpi /\ pc = "qpi_flag" /\ qpi_mode')]_vars

\* C16 witness: reset_memory has returned on a driver whose flag was true, and
\* the flag is still true.
C16_Witness ==
    /\ cur_op = "reset_memory" /\ pc = "idle"
    /\ qpi_mode

\* C17: when reset_memory runs with qpi_mode true (it was called after
\* enter_qpi_mode), then once its four reset commands are issued the device is
\* in single-wire mode while the flag is still true, and every transaction of
\* its busy-wait is a Status Register 1 read encoded quad.
C17_ResetLeavesFlagAhead ==
    (cur_op = "reset_memory" /\ qpi_mode /\ Len(trace) >= 4) =>
        /\ ~dev_qpi
        /\ \A i \in 5..Len(trace) :
              /\ IsPoll(trace[i])
              /\ trace[i].iw = "QUAD" /\ trace[i].dw = "QUAD"

\* C17 witness: in reset_memory, the flag true and the device in single-wire
\* mode, the busy-wait has read Status Register 1 with a quad instruction.
C17_Witness ==
    /\ cur_op = "reset_memory"
    /\ qpi_mode /\ ~dev_qpi
    /\ Len(trace) >= 5
    /\ IsPoll(trace[5]) /\ trace[5].iw = "QUAD"

\* The device decodes the driver's register reads: the interface mode the
\* driver tracks is the device's.
DeviceAnswers == qpi_mode = dev_qpi

\* C18: in wait_write_finish every step issues one Status Register 1 read and
\* nothing else, and the wait is left exactly on a read that shows
\* Write-In-Progress clear (so it is never left while the reads show it set);
\* and when the device answers the reads, so that it eventually clears the
\* bit, the wait eventually ends.
C18_ReturnsWhenIdleOnly ==
    /\ [][pc = "wait" =>
            /\ Issues /\ IsPoll(Issued)
            /\ (pc' # "wait") <=> ~HasBit(Issued.data[1], WipMask)]_vars
    /\ ((pc = "wait" /\ DeviceAnswers) ~> (pc # "wait"))

\* C18 witness: an erase or a write has returned after its busy-wait read
\* Write-In-Progress set and then clear from a device that answered.
C18_Witness ==
    /\ cur_op \in {"erase_sector", "erase_block_32k", "erase_block_64k",
                   "erase_chip", "write_memory"}
    /\ pc = "idle"
    /\ DeviceAnswers
    /\ Len(trace) >= 4
    /\ IsBusyPoll(trace[Len(trace) - 1])
    /\ IsPoll(trace[Len(trace)]) /\ trace[Len(trace)].data = <<dev_sr>>

\* A transaction that changes the device's state: an erase, a page program,
\* or a write of Status Register 1 or of the Configuration Register.
IsStateMutating(tx) == IsEraseOrProgram(tx) \/ IsRegisterWrite(tx)

\* C19: every state-mutating transaction in the trace, the register writes of
\* enable_quad, disable_quad and enter_qpi_mode included, comes right after a
\* write-enable transaction.
C19_WriteEnableBeforeEveryMutation ==
    \A i \in 1..Len(trace) :
        IsStateMutating(trace[i]) =>
            /\ i > 1
            /\ trace[i - 1].kind = "cmd" /\ trace[i - 1].op = CMD_WRITE_ENABLE

---------------------------------------------------------------------------
\* Properties of main() (checked under SpecMain).

\* read_memory has returned in main.
MainHasRead ==
    \/ main_pc = "read_memory" /\ pc = "idle"
    \/ main_pc \in {"enable_mm", "first_ok", "loop"}

\* C6: in main's sequence nothing panics (both assert_eq pass), and once
\* read_memory has returned rd_buf starts with the bytes 0, 1, ..., 7.
C6_MainRoundTrip ==
    /\ panic_kind = "none"
    /\ MainHasRead => SubSeq(rd_buf, 1, WrBufLen) = WrBuf(WrBufLen)
    /\ main_pc \in {"first_ok", "loop"} => first_u32 = ExpectFirst
    /\ main_pc = "loop" => second_u32 = ExpectSecond

\* C6 witness: main reached its loop from a flash array that was not erased,
\* with both words loaded through the armed window.
C6_Witness ==
    /\ main_pc = "loop"
    /\ mm.armed
    /\ first_u32 = ExpectFirst /\ second_u32 = ExpectSecond
    /\ rd_buf[RdBufLen] = ErasedByte

====
